---- MODULE Spec2Model ----
(***************************************************************************)
(* The /api/chat pipeline of backend/main.py: chat() awaits four stage     *)
(* coroutines in sequence (generate_llm_response, text_to_speech,          *)
(* audio_to_blendshapes, send_to_unreal_engine).  Each stage reads one     *)
(* environment variable, possibly posts one HTTP request and suspends      *)
(* until the response or the 30 s timeout.  Several requests run           *)
(* concurrently on the event loop; a step of the model is the code a       *)
(* coroutine runs between two suspension points.                           *)
(***************************************************************************)
EXTENDS Integers, Sequences, FiniteSets, TLC

VARIABLES env, pc, request, inflight, sent, served, log,
          llm_response, audio_data, blendshapes, result

vars == <<env, pc, request, inflight, sent, served, log,
          llm_response, audio_data, blendshapes, result>>

(* ------------------------------ bounds -------------------------------- *)

\* number of /api/chat requests the event loop runs concurrently
NumRequests == 2
\* longest conversation history a request carries
MaxTurns == 2

Requests == 1..NumRequests

(* --------------------------- input domains ---------------------------- *)

\* Message objects a client may put in ChatRequest.messages
Turns ==
  { [role |-> "user", content |-> "Hi"],
    [role |-> "assistant", content |-> "Hello!"] }

RECURSIVE Histories(_)
Histories(n) ==
  IF n = 0 THEN { <<>> }
  ELSE Histories(n - 1) \cup
       { Append(h, t) : h \in { g \in Histories(n - 1) : Len(g) = n - 1 }, t \in Turns }

\* ChatRequest bodies accepted by pydantic: message is required, messages a list
\* the current user message of a request; the client may or may not have put it
\* in messages as well
UserMessage == "Hi"

ChatRequests ==
  { [message |-> UserMessage, messages |-> h] : h \in Histories(MaxTurns) }

\* os.environ as the four getenv calls see it; "" stands for unset (falsy)
Envs ==
  [ OPENAI_API_KEY : {"", "sk-openai"},
    TTS_API_KEY : {"", "xi-key"},
    NEUROSYNC_API_KEY : {"", "ns-key"},
    UNREAL_API_ENDPOINT : {"", "http://unreal:8080/animate"} ]

\* HTTP statuses the remote services answer with
Statuses == {200, 201, 500}

\* texts the completion service puts in choices[0].message.content
Texts == {"Hello!", "Goodbye."}

\* bytes "ID3\x04": audio the speech service answers with (4 bytes: padded base64)
RealAudio == <<73, 68, 51, 4>>

\* frames the blendshape service answers with
RealBlendshapes ==
  << [frame |-> 0, blendshapes |-> [jawOpen |-> "0.2"]],
     [frame |-> 1, blendshapes |-> [jawOpen |-> "0.7"]] >>

(* ----------------------------- constants ------------------------------ *)

\* b"DUMMY_AUDIO_DATA"
DUMMY_AUDIO_DATA == <<68, 85, 77, 77, 89, 95, 65, 85, 68, 73, 79, 95, 68, 65, 84, 65>>

\* [{"frame": 0, "blendshapes": {"mouthOpen": 0.5}}]
DUMMY_BLENDSHAPES == << [frame |-> 0, blendshapes |-> [mouthOpen |-> "0.5"]] >>

\* the order in which chat() awaits the stages
Stages == <<"llm", "tts", "blendshapes", "unreal">>

StageIndex(s) == CHOOSE i \in 1..Len(Stages) : Stages[i] = s

(* ------------------------- values "not yet set" ----------------------- *)

NoRequest == [message |-> "", messages |-> <<>>]
NoCall == [url |-> "", json |-> [none |-> TRUE]]
NoBody == [is_json |-> FALSE, choices |-> <<>>, has_blendshapes |-> FALSE,
           blendshapes |-> <<>>, content |-> <<>>]
NoOutcome == [kind |-> "none", status_code |-> 0, body |-> NoBody]
NoResult == [status_code |-> 0, body |-> [none |-> TRUE]]
NoText == ""
NoAudio == <<>>
NoBlendshapes == <<>>

(* --------------------- outcomes of an awaited post -------------------- *)

\* httpx raises a TimeoutException after timeout=30.0
TimeoutOutcome == [kind |-> "timeout", status_code |-> 0, body |-> NoBody]

Response(status, body) == [kind |-> "response", status_code |-> status, body |-> body]

ErrorBody == [NoBody EXCEPT !.content = <<101, 114, 114>>]

\* bodies the completion service may return with status 200
LlmBodies ==
  { [NoBody EXCEPT !.is_json = TRUE, !.choices = <<t>>] : t \in Texts }
    \cup { [NoBody EXCEPT !.is_json = TRUE] }

TtsBodies == { [NoBody EXCEPT !.content = RealAudio] }

NeurosyncBodies ==
  { [NoBody EXCEPT !.is_json = TRUE, !.has_blendshapes = TRUE,
                   !.blendshapes = RealBlendshapes],
    NoBody }

UnrealBodies == { [NoBody EXCEPT !.is_json = TRUE] }

OkBodies(stage) ==
  CASE stage = "llm" -> LlmBodies
    [] stage = "tts" -> TtsBodies
    [] stage = "blendshapes" -> NeurosyncBodies
    [] stage = "unreal" -> UnrealBodies

\* what awaiting client.post(..., timeout=30.0) can produce
Outcomes(stage) ==
  { TimeoutOutcome }
    \cup { Response(200, b) : b \in OkBodies(stage) }
    \cup { Response(s, ErrorBody) : s \in Statuses \ {200} }

(* --------------------------- pure helpers ----------------------------- *)

\* variant: the truthiness test is dropped and the value is used as it is
IsSet_unchecked(v) == TRUE

\* `if not api_key:` -- None and "" are both falsy
IsSet(v) == v # ""

\* variant: any 2xx status is taken for success
StatusOK_any2xx(status_code) == status_code \in 200..299

\* `response.status_code != 200` is the failure test of every stage
StatusOK(status_code) == status_code = 200

\* [{"role": msg.role, "content": msg.content} for msg in messages]
formatted_messages(messages) ==
  [i \in 1..Len(messages) |-> [role |-> messages[i].role, content |-> messages[i].content]]

\* base64.b64encode: 3 bytes -> 4 sextets, "=" (64) pads the last group
Pad == 64

b64encode(bytes) ==
  LET n == Len(bytes)
      byte(i) == IF i <= n THEN bytes[i] ELSE 0
      quad(g) ==
        LET v == byte(3 * g - 2) * 65536 + byte(3 * g - 1) * 256 + byte(3 * g)
        IN << v \div 262144,
              (v \div 4096) % 64,
              IF 3 * g - 1 <= n THEN (v \div 64) % 64 ELSE Pad,
              IF 3 * g <= n THEN v % 64 ELSE Pad >>
  IN [i \in 1..(4 * ((n + 2) \div 3)) |-> quad((i + 3) \div 4)[((i - 1) % 4) + 1]]

(* ----------------------------- exceptions ----------------------------- *)

ValueError(msg) == [type |-> "ValueError", status_code |-> 0, message |-> msg]
HTTPException(status, detail) ==
  [type |-> "HTTPException", status_code |-> status, message |-> detail]
TimeoutException == [type |-> "TimeoutException", status_code |-> 0, message |-> "timed out"]
BodyError == [type |-> "BodyError", status_code |-> 0, message |-> "unexpected body"]

\* str(e), the detail of the response chat() raises
str(e) == e.message

ApiErrorDetail(stage) ==
  CASE stage = "llm" -> "LLM API error"
    [] stage = "tts" -> "TTS API error"
    [] stage = "blendshapes" -> "Neurosync API error"
    [] stage = "unreal" -> "Unreal Engine API error"

\* response.json() and the subscripts that follow it
BodyParses(stage, body) ==
  CASE stage = "llm" -> body.is_json /\ Len(body.choices) > 0
    [] stage = "tts" -> TRUE
    [] stage = "blendshapes" -> body.is_json /\ body.has_blendshapes
    [] stage = "unreal" -> TRUE

\* the exception a stage raises on an outcome of its post; type "none" if it returns
ExceptionOf(stage, o) ==
  IF o.kind = "timeout" THEN TimeoutException
  ELSE IF ~StatusOK(o.status_code) THEN HTTPException(o.status_code, ApiErrorDetail(stage))
  ELSE IF ~BodyParses(stage, o.body) THEN BodyError
  ELSE [type |-> "none", status_code |-> 0, message |-> ""]

(* ------------------------------ chat() -------------------------------- *)

\* the coroutine chat() awaits after `stage` returned
NextStage(stage) ==
  CASE stage = "llm" -> "tts"
    [] stage = "tts" -> "blendshapes"
    [] stage = "blendshapes" -> "unreal"
    [] stage = "unreal" -> "done"

\* variant: the exception is swallowed and chat() goes on with the next stage
AfterFailure_continue(stage) == NextStage(stage)

\* variant: the failed stage is run again
AfterFailure_retry(stage) == IF stage = "llm" THEN "idle" ELSE stage

\* variant: the failed post is awaited again
AfterFailure_await(stage) == stage \o "_post"

\* where control is after a stage raised: the except clause of chat() ends the request
AfterFailure(stage) == "done"

\* variant: the completion text is kept in a module-level variable all requests share
ChatReturn_shared(r) ==
  [status_code |-> 200,
   body |-> [response |-> llm_response[CHOOSE q \in Requests : llm_response[q] # NoText]]]

\* return {"response": llm_response}
ChatReturn(r) == [status_code |-> 200, body |-> [response |-> llm_response[r]]]

\* variant: the error response salvages the completion text
ChatExcept_salvage(r, e) ==
  [status_code |-> 500, body |-> [detail |-> str(e), response |-> llm_response[r]]]

\* raise HTTPException(status_code=500, detail=str(e))
ChatExcept(r, e) == [status_code |-> 500, body |-> [detail |-> str(e)]]

StageErrorLog(stage) ==
  CASE stage = "llm" -> "Error generating LLM response"
    [] stage = "tts" -> "Error in text-to-speech"
    [] stage = "blendshapes" -> "Error generating blendshapes"
    [] stage = "unreal" -> "Error sending data to Unreal Engine"

\* a stage raises e: its own except clause logs and re-raises, chat() logs and answers 500
Raise(r, stage, e) ==
  /\ log' = [log EXCEPT ![r] = @ \o <<StageErrorLog(stage), "Error in chat endpoint">>]
  /\ result' = [result EXCEPT ![r] = ChatExcept(r, e)]
  /\ pc' = [pc EXCEPT ![r] = AfterFailure(stage)]

\* client.post(url, json=json): one outbound call, the coroutine suspends
Post(r, stage, url, json) ==
  /\ inflight' = [inflight EXCEPT ![r] = [url |-> url, json |-> json]]
  /\ sent' = [sent EXCEPT ![r] = Append(@, stage)]
  /\ pc' = [pc EXCEPT ![r] = stage \o "_post"]

\* the awaited post of `stage` completes with outcome o
Receive(r, stage, o) ==
  /\ pc[r] = stage \o "_post"
  /\ o \in Outcomes(stage)
  /\ served' = [served EXCEPT ![r][stage] = o]
  /\ inflight' = [inflight EXCEPT ![r] = NoCall]

(* ------------------------------ actions ------------------------------- *)

Init ==
  /\ env \in Envs
  /\ pc = [r \in Requests |-> "idle"]
  /\ request = [r \in Requests |-> NoRequest]
  /\ inflight = [r \in Requests |-> NoCall]
  /\ sent = [r \in Requests |-> <<>>]
  /\ served = [r \in Requests |-> [i \in {Stages[k] : k \in 1..Len(Stages)} |-> NoOutcome]]
  /\ log = [r \in Requests |-> <<>>]
  /\ llm_response = [r \in Requests |-> NoText]
  /\ audio_data = [r \in Requests |-> NoAudio]
  /\ blendshapes = [r \in Requests |-> NoBlendshapes]
  /\ result = [r \in Requests |-> NoResult]

\* POST /api/chat arrives; chat() calls generate_llm_response(request.messages),
\* which runs up to its post
chat(r, req) ==
  /\ pc[r] = "idle"
  /\ request' = [request EXCEPT ![r] = req]
  /\ IF ~IsSet(env.OPENAI_API_KEY)
     THEN /\ Raise(r, "llm", ValueError("OPENAI_API_KEY environment variable not set"))
          /\ UNCHANGED <<inflight, sent>>
     ELSE /\ Post(r, "llm", "https://api.openai.com/v1/chat/completions",
                  [model |-> "gpt-4", messages |-> formatted_messages(req.messages)])
          /\ UNCHANGED <<log, result>>
  /\ UNCHANGED <<env, served, llm_response, audio_data, blendshapes>>

\* generate_llm_response resumes with the outcome of its post.  request.messages
\* was its argument and chat() never reads request again: the model forgets it here.
generate_llm_response(r, o) ==
  /\ Receive(r, "llm", o)
  /\ IF ExceptionOf("llm", o).type # "none"
     THEN /\ Raise(r, "llm", ExceptionOf("llm", o))
          /\ UNCHANGED llm_response
     ELSE /\ llm_response' = [llm_response EXCEPT ![r] = o.body.choices[1]]
          /\ pc' = [pc EXCEPT ![r] = NextStage("llm")]
          /\ UNCHANGED <<log, result>>
  /\ request' = [request EXCEPT ![r] = NoRequest]
  /\ UNCHANGED <<env, sent, audio_data, blendshapes>>

\* text_to_speech(llm_response) up to its post, or its dummy return
text_to_speech(r) ==
  /\ pc[r] = "tts"
  /\ IF ~IsSet(env.TTS_API_KEY)
     THEN /\ log' = [log EXCEPT ![r] = Append(@, "TTS_API_KEY not set")]
          /\ audio_data' = [audio_data EXCEPT ![r] = DUMMY_AUDIO_DATA]
          /\ pc' = [pc EXCEPT ![r] = NextStage("tts")]
          /\ UNCHANGED <<inflight, sent>>
     ELSE /\ Post(r, "tts", "https://api.elevenlabs.io/v1/text-to-speech/voice_id",
                  [text |-> llm_response[r], model_id |-> "eleven_monolingual_v1"])
          /\ UNCHANGED <<log, audio_data>>
  /\ UNCHANGED <<env, request, served, llm_response, blendshapes, result>>

\* variant: the audio of the response is dropped and the placeholder kept
text_to_speech_response_dummy(r, o) ==
  /\ Receive(r, "tts", o)
  /\ IF ExceptionOf("tts", o).type # "none"
     THEN /\ Raise(r, "tts", ExceptionOf("tts", o))
          /\ UNCHANGED audio_data
     ELSE /\ audio_data' = [audio_data EXCEPT ![r] = DUMMY_AUDIO_DATA]
          /\ pc' = [pc EXCEPT ![r] = NextStage("tts")]
          /\ UNCHANGED <<log, result>>
  /\ UNCHANGED <<env, request, sent, llm_response, blendshapes>>

\* text_to_speech resumes with the outcome of its post
text_to_speech_response(r, o) ==
  /\ Receive(r, "tts", o)
  /\ IF ExceptionOf("tts", o).type # "none"
     THEN /\ Raise(r, "tts", ExceptionOf("tts", o))
          /\ UNCHANGED audio_data
     ELSE /\ audio_data' = [audio_data EXCEPT ![r] = o.body.content]
          /\ pc' = [pc EXCEPT ![r] = NextStage("tts")]
          /\ UNCHANGED <<log, result>>
  /\ UNCHANGED <<env, request, sent, llm_response, blendshapes>>

\* audio_to_blendshapes(audio_data) up to its post, or its dummy return
audio_to_blendshapes(r) ==
  /\ pc[r] = "blendshapes"
  /\ IF ~IsSet(env.NEUROSYNC_API_KEY)
     THEN /\ log' = [log EXCEPT ![r] = Append(@, "NEUROSYNC_API_KEY not set")]
          /\ blendshapes' = [blendshapes EXCEPT ![r] = DUMMY_BLENDSHAPES]
          /\ pc' = [pc EXCEPT ![r] = NextStage("blendshapes")]
          /\ UNCHANGED <<inflight, sent>>
     ELSE /\ Post(r, "blendshapes", "https://api.neurosync.ai/audio-to-face",
                  [audio_base64 |-> b64encode(audio_data[r]),
                   model |-> "NEUROSYNC_Audio_To_Face_Blendshape"])
          /\ UNCHANGED <<log, blendshapes>>
  /\ UNCHANGED <<env, request, served, llm_response, audio_data, result>>

\* audio_to_blendshapes resumes with the outcome of its post
audio_to_blendshapes_response(r, o) ==
  /\ Receive(r, "blendshapes", o)
  /\ IF ExceptionOf("blendshapes", o).type # "none"
     THEN /\ Raise(r, "blendshapes", ExceptionOf("blendshapes", o))
          /\ UNCHANGED blendshapes
     ELSE /\ blendshapes' = [blendshapes EXCEPT ![r] = o.body.blendshapes]
          /\ pc' = [pc EXCEPT ![r] = NextStage("blendshapes")]
          /\ UNCHANGED <<log, result>>
  /\ UNCHANGED <<env, request, sent, llm_response, audio_data>>

\* variant: a missing endpoint is a configuration error, as a missing OPENAI_API_KEY is
send_to_unreal_engine_required(r) ==
  /\ pc[r] = "unreal"
  /\ IF ~IsSet(env.UNREAL_API_ENDPOINT)
     THEN /\ Raise(r, "unreal", ValueError("UNREAL_API_ENDPOINT environment variable not set"))
          /\ UNCHANGED <<inflight, sent>>
     ELSE /\ Post(r, "unreal", env.UNREAL_API_ENDPOINT,
                  [audio_base64 |-> b64encode(audio_data[r]),
                   blendshapes |-> blendshapes[r]])
          /\ UNCHANGED <<log, result>>
  /\ UNCHANGED <<env, request, served, llm_response, audio_data, blendshapes>>

\* send_to_unreal_engine(audio_data, blendshapes) up to its post, or its early
\* return, after which chat() returns the completion text
send_to_unreal_engine(r) ==
  /\ pc[r] = "unreal"
  /\ IF ~IsSet(env.UNREAL_API_ENDPOINT)
     THEN /\ log' = [log EXCEPT ![r] = Append(@, "UNREAL_API_ENDPOINT not set")]
          /\ result' = [result EXCEPT ![r] = ChatReturn(r)]
          /\ pc' = [pc EXCEPT ![r] = NextStage("unreal")]
          /\ UNCHANGED <<inflight, sent>>
     ELSE /\ Post(r, "unreal", env.UNREAL_API_ENDPOINT,
                  [audio_base64 |-> b64encode(audio_data[r]),
                   blendshapes |-> blendshapes[r]])
          /\ UNCHANGED <<log, result>>
  /\ UNCHANGED <<env, request, served, llm_response, audio_data, blendshapes>>

\* send_to_unreal_engine resumes with the outcome of its post; chat() returns
send_to_unreal_engine_response(r, o) ==
  /\ Receive(r, "unreal", o)
  /\ IF ExceptionOf("unreal", o).type # "none"
     THEN Raise(r, "unreal", ExceptionOf("unreal", o))
     ELSE /\ result' = [result EXCEPT ![r] = ChatReturn(r)]
          /\ pc' = [pc EXCEPT ![r] = NextStage("unreal")]
          /\ UNCHANGED log
  /\ UNCHANGED <<env, request, sent, llm_response, audio_data, blendshapes>>

Next ==
  \/ \E r \in Requests, req \in ChatRequests : chat(r, req)
  \/ \E r \in Requests, o \in Outcomes("llm") : generate_llm_response(r, o)
  \/ \E r \in Requests : text_to_speech(r)
  \/ \E r \in Requests, o \in Outcomes("tts") : text_to_speech_response(r, o)
  \/ \E r \in Requests : audio_to_blendshapes(r)
  \/ \E r \in Requests, o \in Outcomes("blendshapes") : audio_to_blendshapes_response(r, o)
  \/ \E r \in Requests : send_to_unreal_engine(r)
  \/ \E r \in Requests, o \in Outcomes("unreal") : send_to_unreal_engine_response(r, o)

Spec == Init /\ [][Next]_vars

\* the network answers every post or the timeout fires, and the event loop
\* resumes every coroutine that is ready; arrivals of requests are not forced
Step(r) ==
  \/ \E o \in Outcomes("llm") : generate_llm_response(r, o)
  \/ text_to_speech(r)
  \/ \E o \in Outcomes("tts") : text_to_speech_response(r, o)
  \/ audio_to_blendshapes(r)
  \/ \E o \in Outcomes("blendshapes") : audio_to_blendshapes_response(r, o)
  \/ send_to_unreal_engine(r)
  \/ \E o \in Outcomes("unreal") : send_to_unreal_engine_response(r, o)

FairSpec == Spec /\ \A r \in Requests : WF_vars(Step(r))

(* ------------------------ vocabulary of the claims -------------------- *)

StageSet == {"llm", "tts", "blendshapes", "unreal"}
OptionalStages == {"tts", "blendshapes", "unreal"}

Range(seq) == { seq[i] : i \in DOMAIN seq }

\* number of outbound calls request r made to the service of `stage`
Calls(r, stage) == Cardinality({ i \in DOMAIN sent[r] : sent[r][i] = stage })

\* the configuration value `stage` depends on is present
Configured(stage) ==
  CASE stage = "llm" -> env.OPENAI_API_KEY # ""
    [] stage = "tts" -> env.TTS_API_KEY # ""
    [] stage = "blendshapes" -> env.NEUROSYNC_API_KEY # ""
    [] stage = "unreal" -> env.UNREAL_API_ENDPOINT # ""

Malformed(stage, body) ==
  CASE stage = "llm" -> ~body.is_json \/ body.choices = <<>>
    [] stage = "blendshapes" -> ~body.is_json \/ ~body.has_blendshapes
    [] OTHER -> FALSE

\* the service answered the post of `stage` and the answer is not a success
BadOutcome(stage, o) ==
  \/ o.kind = "timeout"
  \/ o.kind = "response" /\ (o.status_code # 200 \/ Malformed(stage, o.body))

\* stage failed in request r: bad outcome, or the required credential is missing
StageFailed(r, stage) ==
  \/ BadOutcome(stage, served[r][stage])
  \/ stage = "llm" /\ pc[r] # "idle" /\ ~Configured("llm")

AnyStageFailed(r) == \E stage \in StageSet : StageFailed(r, stage)

DegradedLog(stage) ==
  CASE stage = "tts" -> "TTS_API_KEY not set"
    [] stage = "blendshapes" -> "NEUROSYNC_API_KEY not set"
    [] stage = "unreal" -> "UNREAL_API_ENDPOINT not set"
    [] OTHER -> "-"

\* request r has run (part of) `stage`: it called the service or took the fallback
Executed(r, stage) ==
  \/ Calls(r, stage) > 0
  \/ DegradedLog(stage) \in Range(log[r])
  \/ stage = "llm" /\ pc[r] # "idle"

\* the text the completion service produced for request r
ServedText(r) ==
  IF Len(served[r]["llm"].body.choices) > 0 THEN served[r]["llm"].body.choices[1] ELSE NoText

IsError(res) == res.status_code = 500 /\ DOMAIN res.body = {"detail"}
IsSuccess(res) == res.status_code = 200 /\ DOMAIN res.body = {"response"}

PcRank(p) ==
  CASE p = "idle" -> 0
    [] p = "llm_post" -> 1
    [] p = "tts" -> 2
    [] p = "tts_post" -> 3
    [] p = "blendshapes" -> 4
    [] p = "blendshapes_post" -> 5
    [] p = "unreal" -> 6
    [] p = "unreal_post" -> 7
    [] p = "done" -> 8
    [] OTHER -> 9

(* -------------------------------- claims ------------------------------ *)

\* C1: the stages of a request execute in the order completion, speech,
\* blendshape, delivery (a stage executes only after every earlier stage
\* executed and did not fail), and once a stage failed no later stage executes
\* or makes an outbound call; after a failed completion stage the speech,
\* blendshape and delivery services have received 0 calls.
C1_OrderAndShortCircuit ==
  \A r \in Requests :
    /\ \A i, j \in DOMAIN sent[r] :
         i < j => StageIndex(sent[r][i]) < StageIndex(sent[r][j])
    /\ \A m, k \in StageSet :
         (Executed(r, m) /\ StageIndex(k) < StageIndex(m))
           => /\ Executed(r, k)
              /\ ~StageFailed(r, k)
              /\ (Configured(k) => served[r][k].kind = "response")
    /\ \A n, m \in StageSet :
         (StageFailed(r, n) /\ StageIndex(n) < StageIndex(m))
           => ~Executed(r, m) /\ Calls(r, m) = 0

\* C1 witness: a completion call answered 500, the request is over and no
\* other service was called
C1_Witness ==
  \E r \in Requests :
    /\ served[r]["llm"].kind = "response" /\ served[r]["llm"].status_code = 500
    /\ pc[r] = "done"
    /\ sent[r] = <<"llm">>

\* C2: when all four stages of a request succeeded, its response is exactly
\* the text its own completion call produced, whatever the other requests did.
C2_OwnCompletionText ==
  \A r \in Requests :
    (pc[r] = "done" /\ ~AnyStageFailed(r))
      => result[r] = [status_code |-> 200, body |-> [response |-> ServedText(r)]]

\* C2 witness: two requests whose completion calls produced different texts
\* both finished successfully, after calling all four services
C2_Witness ==
  \E r, q \in Requests :
    /\ pc[r] = "done" /\ pc[q] = "done"
    /\ ~AnyStageFailed(r) /\ ~AnyStageFailed(q)
    /\ Len(sent[r]) = 4 /\ Len(sent[q]) = 4
    /\ ServedText(r) # ServedText(q)
    /\ IsSuccess(result[r]) /\ IsSuccess(result[q])

\* C3: with the completion credential absent a request ends at once with the
\* configuration error and no outbound call is ever made, whatever the other
\* three configuration values are.
C3_NoCredentialNoCall ==
  env.OPENAI_API_KEY = ""
    => \A r \in Requests :
         /\ sent[r] = <<>>
         /\ inflight[r] = NoCall
         /\ pc[r] \in {"idle", "done"}
         /\ pc[r] = "done"
              => result[r] = [status_code |-> 500,
                              body |-> [detail |-> "OPENAI_API_KEY environment variable not set"]]

\* C3 witness: a request was processed with only the completion credential missing
C3_Witness ==
  /\ env.OPENAI_API_KEY = ""
  /\ env.TTS_API_KEY # "" /\ env.NEUROSYNC_API_KEY # "" /\ env.UNREAL_API_ENDPOINT # ""
  /\ \E r \in Requests : pc[r] = "done" /\ result[r].status_code = 500

\* C4: when any stage of a request failed the request is over with a 500
\* response that carries a detail and not the completion text; a finished
\* request has exactly one of the two outcomes, and the error is raised once.
C4_FailureIsError ==
  \A r \in Requests :
    /\ AnyStageFailed(r)
         => /\ pc[r] = "done"
            /\ IsError(result[r])
            /\ Cardinality({ i \in DOMAIN log[r] : log[r][i] = "Error in chat endpoint" }) = 1
    /\ pc[r] = "done" => (IsError(result[r]) \/ IsSuccess(result[r]))
    /\ pc[r] # "done" => result[r] = NoResult
    /\ IsSuccess(result[r]) => ~AnyStageFailed(r)

\* C4 witness: the completion stage succeeded, the delivery stage failed, and
\* the caller got the error
C4_Witness ==
  \E r \in Requests :
    /\ ServedText(r) # NoText
    /\ StageFailed(r, "unreal")
    /\ IsError(result[r])

\* C5: a missing optional configuration value is never an error: the stage
\* makes no call and logs no error; a finished request none of whose stages
\* failed reports success with the completion text under every combination of
\* optional values; with all three missing the only call is the completion call.
C5_OptionalAbsenceNotError ==
  \A r \in Requests :
    /\ \A s \in OptionalStages :
         ~Configured(s) => Calls(r, s) = 0 /\ StageErrorLog(s) \notin Range(log[r])
    /\ (pc[r] = "done" /\ ~AnyStageFailed(r))
         => IsSuccess(result[r]) /\ result[r].body.response = ServedText(r)
    /\ (pc[r] = "done" /\ Configured("llm") /\ \A s \in OptionalStages : ~Configured(s))
         => sent[r] = <<"llm">>

\* C5 witness: all three optional values missing, the request succeeded with
\* exactly one outbound call
C5_Witness ==
  /\ \A s \in OptionalStages : ~Configured(s)
  /\ \E r \in Requests :
       /\ pc[r] = "done"
       /\ IsSuccess(result[r])
       /\ sent[r] = <<"llm">>
       /\ Range(log[r]) = { DegradedLog(s) : s \in OptionalStages }

\* base64 of b"DUMMY_AUDIO_DATA", "RFVNTVlfQVVESU9fREFUQQ=="
DummyAudioBase64 ==
  <<17, 5, 21, 13, 19, 21, 37, 31, 16, 21, 21, 4, 18, 20, 61, 31, 17, 4, 5, 20, 16, 16, 64, 64>>

\* the audio the speech stage returned to chat() in request r
AudioReturned(r) ==
  IF Configured("tts") THEN served[r]["tts"].body.content
  ELSE <<68, 85, 77, 77, 89, 95, 65, 85, 68, 73, 79, 95, 68, 65, 84, 65>>

\* the frames the blendshape stage returned to chat() in request r
FramesReturned(r) ==
  IF Configured("blendshapes") THEN served[r]["blendshapes"].body.blendshapes
  ELSE << [frame |-> 0, blendshapes |-> [mouthOpen |-> "0.5"]] >>

\* C6: without the speech credential the speech stage makes no call and
\* returns the placeholder; the audio given to stages 3 and 4 (argument and
\* posted payload) is the value stage 2 returned, and the frames given to
\* stage 4 are what stage 3 returned.
C6_AudioAndFramesHandedOn ==
  \A r \in Requests :
    /\ ~Configured("tts") => Calls(r, "tts") = 0
    /\ pc[r] \in {"blendshapes", "blendshapes_post", "unreal", "unreal_post"}
         => audio_data[r] = AudioReturned(r)
    /\ pc[r] \in {"unreal", "unreal_post"} => blendshapes[r] = FramesReturned(r)
    /\ pc[r] = "blendshapes_post"
         => /\ inflight[r].json.audio_base64 = b64encode(AudioReturned(r))
            /\ ~Configured("tts") => inflight[r].json.audio_base64 = DummyAudioBase64
    /\ pc[r] = "unreal_post"
         => /\ inflight[r].json.audio_base64 = b64encode(AudioReturned(r))
            /\ ~Configured("tts") => inflight[r].json.audio_base64 = DummyAudioBase64
            /\ inflight[r].json.blendshapes = FramesReturned(r)

\* C6 witness: no speech credential, the placeholder audio is in the payload
\* posted to the delivery endpoint together with frames of the blendshape service
C6_Witness ==
  /\ ~Configured("tts")
  /\ \E r \in Requests :
       /\ pc[r] = "unreal_post"
       /\ Calls(r, "blendshapes") = 1
       /\ inflight[r].json.audio_base64 = DummyAudioBase64
       /\ Len(inflight[r].json.blendshapes) = 2

\* C7: a request calls each service at most once and at most four times in
\* all: exactly once for a stage it entered with its value configured, never
\* for a stage in degraded mode, and never again after a failure or a timeout.
C7_AtMostOneCallPerService ==
  \A r \in Requests :
    /\ Len(sent[r]) <= 4
    /\ \A s \in StageSet :
         /\ Calls(r, s) <= 1
         /\ ~Configured(s) => Calls(r, s) = 0
         /\ (Executed(r, s) /\ Configured(s)) => Calls(r, s) = 1
         /\ BadOutcome(s, served[r][s]) => Calls(r, s) = 1 /\ pc[r] = "done"

\* C7 witness: a request that called all four services, the last call timing out
C7_Witness ==
  \E r \in Requests :
    /\ sent[r] = <<"llm", "tts", "blendshapes", "unreal">>
    /\ served[r]["unreal"].kind = "timeout"
    /\ pc[r] = "done"

\* C8: every request that arrived eventually ends; no step takes a request
\* back to an earlier position; a timeout of the post a request awaits ends
\* the request there with the error response.
C8_Terminates ==
  /\ \A r \in Requests : (pc[r] # "idle") ~> (pc[r] = "done" /\ result[r] # NoResult)
  /\ [][\A r \in Requests :
          /\ PcRank(pc'[r]) >= PcRank(pc[r])
          /\ \A s \in StageSet :
               (served[r][s].kind = "none" /\ served'[r][s].kind = "timeout")
                 => /\ pc[r] = s \o "_post"
                    /\ pc'[r] = "done"
                    /\ IsError(result'[r])
                    /\ sent'[r] = sent[r]]_vars

\* C8 witness: the blendshape call of a request timed out and the request is
\* over with the error response
C8_Witness ==
  \E r \in Requests :
    /\ served[r]["blendshapes"].kind = "timeout"
    /\ pc[r] = "done"
    /\ IsError(result[r])

\* C9: the messages posted to the completion service are the turns of the
\* request in their order, role and content preserved, and they include the
\* content of the request's `message` field.
C9_CurrentMessageSent ==
  \A r \in Requests :
    pc[r] = "llm_post"
      => /\ Len(inflight[r].json.messages) >= Len(request[r].messages)
         /\ \A i \in DOMAIN request[r].messages :
              /\ inflight[r].json.messages[i].role = request[r].messages[i].role
              /\ inflight[r].json.messages[i].content = request[r].messages[i].content
         /\ \E i \in DOMAIN inflight[r].json.messages :
              inflight[r].json.messages[i].content = request[r].message

\* C10: a response whose status is not exactly 200 (201 included) fails its
\* stage: the request ends with the error response and calls no later service;
\* a stage that chat() got past was answered with status 200.
C10_Only200IsSuccess ==
  \A r \in Requests : \A s \in StageSet :
    /\ (served[r][s].kind = "response" /\ served[r][s].status_code # 200)
         => /\ pc[r] = "done"
            /\ IsError(result[r])
            /\ \A m \in StageSet : StageIndex(s) < StageIndex(m) => Calls(r, m) = 0
    /\ (served[r][s].kind = "response" /\ (pc[r] # "done" \/ IsSuccess(result[r])))
         => served[r][s].status_code = 200

\* C10 witness: the speech service answered 201, a 2xx status, and the request
\* ended with the error response before the blendshape stage
C10_Witness ==
  \E r \in Requests :
    /\ served[r]["tts"].kind = "response"
    /\ served[r]["tts"].status_code = 201
    /\ IsError(result[r])
    /\ Calls(r, "blendshapes") = 0

====
